---- MODULE Spec2Model ----
(***************************************************************************)
(* Cooperative cancellation and dispatch primitives of base-rs:            *)
(*   - Alive      (src/src/trace.rs)   hierarchical liveness/deadline token *)
(*   - Dispatcher (src/src/channel.rs) capacity-1 multi-consumer dispatch   *)
(*   - Boardcast  (src/src/channel.rs) fan-out with latest-value cell       *)
(*   - sleep_to, recv, iter, recv_iter (src/src/trace.rs) bounded waiting   *)
(*   - parallel   (src/src/thread.rs)  worker pool over a Dispatcher        *)
(*   - LruMap     (src/src/lru.rs)     ordered-map based LRU structure      *)
(* Each subsystem has its own specification over its own variables; the    *)
(* variables of the other subsystems stay at their initial values.         *)
(***************************************************************************)
EXTENDS Integers, Sequences, FiniteSets, TLC

\* ---------------------------------------------------------------- bounds
\* Number of Alive tokens the program creates (the root and its forks).
MaxTokens == 3
\* Last clock value reached by Tick.
MaxTime == 2
\* Number of with_deadline calls the program makes.
MaxWithDeadline == 1
\* Number of subscribe() / new_subscriber() calls.
MaxSubs == 2
\* Number of dispatch() calls; items are numbered by call.
MaxCalls == 3
\* Number of boardcast() calls (new_with included); items are numbered by call.
MaxBcasts == 2
\* Number of threads that call boardcast() on clones of one Boardcast.
MaxThreads == 2
\* Last clock value reached while a thread sleeps or receives.
MaxClock == 4
\* Number of sleep_to / recv / next calls the waiting thread makes.
MaxOps == 2
\* Number of items in the collection under iter() and sent to the channel.
MaxItems == 2
\* Longest poll interval passed to recv_iter.
MaxPoll == 2
\* Longest task list passed to parallel().
MaxTasks == 2
\* Largest worker count passed to parallel().
MaxWorkers == 2
\* Number of keys and of values of an LruMap.
MaxKeys == 3
MaxVals == 2
\* Largest limit passed to LruMap::new.
MaxLimit == 2
\* Largest sequence number of an LruMap that is followed.
MaxSeq == 3

\* ------------------------------------------------------------ constants
\* Capacity of a Dispatcher subscriber channel: mpsc::sync_channel(1).
SlotCapacity == 1
\* max_sleep = Duration::from_secs(1) of sleep_to and recv, in clock units.
MaxSleep == 3

\* ------------------------------------------------------------ Option<T>
\* Option<T> is a sequence of length <= 1.
None == <<>>
Some(x) == <<x>>

MinOf(a, b) == IF a <= b THEN a ELSE b

VARIABLES
    now,      \* Time::now(), a monotonic clock
    flags,    \* the Arc<AtomicBool> cells, indexed by allocation order
    toks,     \* the Alive values held by the program, in creation order
    nwd,      \* with_deadline calls made so far
    dsenders, \* Dispatcher.senders: Vec<SyncSender<T>>, as channel indices
    dchan,    \* the sync channels: [buf: buffered items, rx: receiver not dropped]
    dcall,    \* the dispatch call in progress (it holds the senders lock)
    dlast,    \* history: the last completed dispatch call and its result
    dclosed,  \* history: channels registered when close_write() was called
    bsenders, \* Boardcast.senders: Vec<Sender<T>>, as channel indices
    bchan,    \* the channels: [q: queued items, rx: receiver not dropped,
              \*   got: items the receiver has received, and as history
              \*   since: boardcasts sent before the subscription,
              \*   old: boardcast calls completed before the subscription]
    latest,   \* Boardcast.latest: Option<T>
    bpending, \* items of the boardcast calls between their two blocks
    bhist,    \* history: log: items in the order their fan-out ran,
              \*   done: items whose boardcast call has returned,
              \*   overlap: the last boardcast call began during another
    wt,       \* the thread that calls sleep_to / recv / iter / recv_iter:
              \*   its position in the call, the call's arguments and result
    wch,      \* the mpsc channel it receives from: [buf: buffered items,
              \*   tx: a sender still exists, sent: items sent so far]
    wout,     \* [coll: items left in the collection under iter(),
              \*   out: items iter() yielded, got: items recv_iter() yielded]
    pm,       \* the thread that called parallel(): its position, the
              \*   arguments (n tasks, w workers), the task in hand, the result
    pw,       \* the worker threads: position and the item being handled
    pcnt,     \* the shared counter `processed`
    ph,       \* history of the parallel() call: handler invocations begun,
              \*   panics, failures, the counter at the first shutdown,
              \*   acc: the tasks dispatch accepted, in order, ...
    lru       \* the LruMap of the program: m: [seq, order, value, limit],
              \*   and as history rec: the live keys from the least to the
              \*   most recently inserted or got, last: the last insert
              \*   or append call

aliveVars == <<now, flags, toks, nwd>>
dispVars == <<dsenders, dchan, dcall, dlast, dclosed>>
bcVars == <<bsenders, bchan, latest, bpending, bhist>>
waitVars == <<wt, wch, wout>>
parVars == <<pm, pw, pcnt, ph>>
lruVars == <<lru>>
vars == <<aliveVars, dispVars, bcVars, waitVars, parVars, lruVars>>

\* What the operations of one subsystem leave alone: the other subsystems.
aliveFrame == <<dispVars, bcVars, waitVars, parVars, lruVars>>
dispFrame == <<aliveVars, bcVars, waitVars, parVars, lruVars>>
bcFrame == <<aliveVars, dispVars, waitVars, parVars, lruVars>>
waitFrame == <<dispVars, bcVars, parVars, lruVars>>
parFrame == <<bcVars, waitVars, lruVars>>
lruFrame == <<aliveVars, dispVars, bcVars, waitVars, parVars>>

\* ------------------------------------------------------------ Alive
\* An Alive value is [alive: cell index, parent: Option<Alive>, deadline:
\* Option<Time>]; `parent` holds a clone of the forking token, taken at the
\* fork (same cell, the deadline the parent had then).

Alive_new(cell) == [alive |-> cell, parent |-> None, deadline |-> None]

\* Mutant of is_alive: the deadline test is `now > deadline`.
is_alive_nonstrict(self) ==
    LET RECURSIVE go(_)
        go(a) ==
            IF ~flags[a.alive] THEN FALSE
            ELSE IF a.deadline # None /\ now > a.deadline[1] THEN FALSE
            ELSE IF a.parent # None THEN go(a.parent[1])
            ELSE TRUE
    IN go(self)

RECURSIVE is_alive(_)
is_alive(self) ==
    IF ~flags[self.alive] THEN FALSE
    ELSE IF self.deadline # None /\ now >= self.deadline[1] THEN FALSE
    ELSE IF self.parent # None THEN is_alive(self.parent[1])
    ELSE TRUE

\* Mutant of fork: the new token shares the flag cell of its parent.
fork_same_cell(self, cell) ==
    [alive |-> self.alive, parent |-> Some(self), deadline |-> self.deadline]

\* Mutant of shutdown: the store also reaches the parent's cell.
shutdown_with_parent(self) ==
    [c \in DOMAIN flags |->
        IF c = self.alive \/ (self.parent # None /\ c = self.parent[1].alive)
        THEN FALSE ELSE flags[c]]

\* Mutant of shutdown: nothing is stored.
shutdown_noop(self) == flags

\* shutdown stores false into the token's own cell; the result is the new
\* content of the cells.
shutdown(self) == [flags EXCEPT ![self.alive] = FALSE]

with_deadline(self, deadline) == [self EXCEPT !.deadline = Some(deadline)]

fork_with_deadline(self, cell, deadline) ==
    [alive |-> cell,
     parent |-> Some(self),
     deadline |-> Some(IF self.deadline # None
                       THEN MinOf(self.deadline[1], deadline)
                       ELSE deadline)]

fork_with_timeout(self, cell, dur) == fork_with_deadline(self, cell, now + dur)

fork(self, cell) ==
    [alive |-> cell, parent |-> Some(self), deadline |-> self.deadline]

\* Deadlines and durations a caller passes in.
Deadlines == 1 .. MaxTime
Durations == 0 .. MaxTime

TokIds == DOMAIN toks
NewCell == Len(flags) + 1

\* The program has built one root token with Alive::new().
AliveInit ==
    /\ now = 0
    /\ flags = <<TRUE>>
    /\ toks = <<Alive_new(1)>>
    /\ nwd = 0

Fork(i) ==
    /\ Len(toks) < MaxTokens
    /\ flags' = Append(flags, TRUE)
    /\ toks' = Append(toks, fork(toks[i], NewCell))
    /\ UNCHANGED <<now, nwd, aliveFrame>>

ForkWithDeadline(i, d) ==
    /\ Len(toks) < MaxTokens
    /\ flags' = Append(flags, TRUE)
    /\ toks' = Append(toks, fork_with_deadline(toks[i], NewCell, d))
    /\ UNCHANGED <<now, nwd, aliveFrame>>

ForkWithTimeout(i, dur) ==
    /\ Len(toks) < MaxTokens
    /\ now + dur <= MaxTime
    /\ flags' = Append(flags, TRUE)
    /\ toks' = Append(toks, fork_with_timeout(toks[i], NewCell, dur))
    /\ UNCHANGED <<now, nwd, aliveFrame>>

Shutdown(i) ==
    /\ flags' = shutdown(toks[i])
    /\ UNCHANGED <<now, toks, nwd, aliveFrame>>

WithDeadline(i, d) ==
    /\ nwd < MaxWithDeadline
    /\ nwd' = nwd + 1
    /\ toks' = [toks EXCEPT ![i] = with_deadline(toks[i], d)]
    /\ UNCHANGED <<now, flags, aliveFrame>>

Tick ==
    /\ now < MaxTime
    /\ now' = now + 1
    /\ UNCHANGED <<flags, toks, nwd, aliveFrame>>

AliveNext ==
    \/ \E i \in TokIds : Fork(i)
    \/ \E i \in TokIds, d \in Deadlines : ForkWithDeadline(i, d)
    \/ \E i \in TokIds, dur \in Durations : ForkWithTimeout(i, dur)
    \/ \E i \in TokIds : Shutdown(i)
    \/ \E i \in TokIds, d \in Deadlines : WithDeadline(i, d)
    \/ Tick

\* ------------------------------------------------------------ Dispatcher
\* std::sync::mpsc::SyncSender::try_send on channel `ch`: Disconnected when
\* the receiver was dropped, Full when the buffer holds SlotCapacity items,
\* otherwise the item is buffered.
\* Mutant of try_send: the receiver's disconnection is not looked at.
try_send_ignore_rx(ch, t) ==
    IF Len(ch.buf) >= SlotCapacity THEN [res |-> "Full", ch |-> ch]
    ELSE [res |-> "Ok", ch |-> [ch EXCEPT !.buf = Append(@, t)]]

\* Mutant of try_send: the capacity test is off by one.
try_send_cap_plus_one(ch, t) ==
    IF ~ch.rx THEN [res |-> "Disconnected", ch |-> ch]
    ELSE IF Len(ch.buf) > SlotCapacity THEN [res |-> "Full", ch |-> ch]
    ELSE [res |-> "Ok", ch |-> [ch EXCEPT !.buf = Append(@, t)]]

try_send(ch, t) ==
    IF ~ch.rx THEN [res |-> "Disconnected", ch |-> ch]
    ELSE IF Len(ch.buf) >= SlotCapacity THEN [res |-> "Full", ch |-> ch]
    ELSE [res |-> "Ok", ch |-> [ch EXCEPT !.buf = Append(@, t)]]

\* Mutant of Remove: the last element is popped instead.
Remove_last(seq, idx) == SubSeq(seq, 1, Len(seq) - 1)

\* Vec::remove(idx), 1-based.
Remove(seq, idx) == SubSeq(seq, 1, idx - 1) \o SubSeq(seq, idx + 1, Len(seq))

Range(seq) == {seq[k] : k \in DOMAIN seq}

\* The sender half of channel c exists as long as it is in the list.
SenderAlive(c) == c \in Range(dsenders)

\* Mutant of RecvOutcome: disconnection is reported before a buffered item.
RecvOutcome_disconnected_first(c) ==
    IF ~SenderAlive(c) THEN "Disconnected"
    ELSE IF dchan[c].buf # <<>> THEN "Ok"
    ELSE "Timeout"

\* What Receiver::recv_timeout / try_recv yields on channel c now.
RecvOutcome(c) ==
    IF dchan[c].buf # <<>> THEN "Ok"
    ELSE IF ~SenderAlive(c) THEN "Disconnected"
    ELSE "Timeout"

\* Some registered subscriber is connected and has an empty slot.
SomeSlotFree ==
    \E k \in DOMAIN dsenders :
        dchan[dsenders[k]].rx /\ Len(dchan[dsenders[k]].buf) < SlotCapacity

Idle == [pc |-> "idle"]

DispatcherInit ==
    /\ dsenders = <<>>
    /\ dchan = <<>>
    /\ dcall = Idle
    /\ dlast = [n |-> 0, rets |-> <<>>]
    /\ dclosed = {}

\* Dispatcher::subscribe: a new capacity-1 channel, its sender pushed.
subscribe ==
    /\ dcall.pc = "idle"
    /\ Len(dchan) < MaxSubs
    /\ dchan' = Append(dchan, [buf |-> <<>>, rx |-> TRUE])
    /\ dsenders' = Append(dsenders, Len(dchan) + 1)
    /\ UNCHANGED <<dcall, dlast, dclosed, dispFrame>>

\* Mutant of ScanEndResult: the item is swallowed.
ScanEndResult_none(t) == None

\* Mutant of ScanEndResult: the first item ever dispatched is given back.
ScanEndResult_first(t) == Some(1)

\* The return of a dispatch call: Some(t) when the scan passed the end of
\* the list (channel.rs:96).
ScanEndResult(t) == Some(t)

\* One pass of the while loop of Dispatcher::dispatch at index idx (1-based)
\* for the call `c`, followed by the loop test: the call returns None on
\* Ok, returns Some(t) when the index has passed the end of the list, and
\* otherwise stays in the loop (it keeps the senders lock).
DispatchIter(c) ==
    LET r == IF c.idx <= Len(dsenders)
             THEN try_send(dchan[dsenders[c.idx]], c.t)
             ELSE [res |-> "End"]
        idx2 == IF r.res = "Full" THEN c.idx + 1 ELSE c.idx
        senders2 == IF r.res = "Disconnected" THEN Remove(dsenders, c.idx)
                    ELSE dsenders
        done(ret, slot) ==
            [n |-> c.t, t |-> c.t, ret |-> ret, slot |-> slot,
             avail |-> c.avail, nsubs |-> c.nsubs, interf |-> c.interf,
             rets |-> Append(dlast.rets, ret)]
    IN
    /\ dsenders' = senders2
    /\ IF r.res = "Ok"
       THEN /\ dchan' = [dchan EXCEPT ![dsenders[c.idx]] = r.ch]
            /\ dcall' = Idle
            /\ dlast' = done(None, dsenders[c.idx])
       ELSE /\ dchan' = dchan
            /\ IF idx2 > Len(senders2)
               THEN /\ dcall' = Idle
                    /\ dlast' = done(ScanEndResult(c.t), 0)
               ELSE /\ dcall' = [c EXCEPT !.idx = idx2]
                    /\ dlast' = dlast
    /\ UNCHANGED <<dclosed, dispFrame>>

\* dispatch(t) is called: the lock is taken and the first pass runs. Items
\* are numbered by call; avail, nsubs, s0 and ch0 record the list and the
\* channels at this moment.
DispatchBegin ==
    /\ dcall.pc = "idle"
    /\ dlast.n < MaxCalls
    /\ DispatchIter([pc |-> "scan", idx |-> 1, t |-> dlast.n + 1,
                     avail |-> SomeSlotFree, nsubs |-> Len(dsenders),
                     interf |-> FALSE, s0 |-> dsenders, ch0 |-> dchan])

\* A later pass of the loop of the call in progress.
DispatchStep ==
    /\ dcall.pc = "scan"
    /\ DispatchIter(dcall)

\* A consumer receives the item buffered in channel c.
DRecv(c) ==
    /\ dchan[c].rx
    /\ dchan[c].buf # <<>>
    /\ dchan' = [dchan EXCEPT ![c].buf = Tail(@)]
    /\ dcall' = IF dcall.pc = "scan" THEN [dcall EXCEPT !.interf = TRUE] ELSE dcall
    /\ UNCHANGED <<dsenders, dlast, dclosed, dispFrame>>

\* A consumer drops its Receiver; what was buffered is discarded.
DDropReceiver(c) ==
    /\ dchan[c].rx
    /\ dchan' = [dchan EXCEPT ![c] = [buf |-> <<>>, rx |-> FALSE]]
    /\ dcall' = IF dcall.pc = "scan" THEN [dcall EXCEPT !.interf = TRUE] ELSE dcall
    /\ UNCHANGED <<dsenders, dlast, dclosed, dispFrame>>

\* Dispatcher::close_write (called at thread.rs:98; its body is not in
\* channel.rs): releases every registered sender.
close_write ==
    /\ dcall.pc = "idle"
    /\ dsenders # <<>>
    /\ dclosed' = dclosed \cup Range(dsenders)
    /\ dsenders' = <<>>
    /\ UNCHANGED <<dchan, dcall, dlast, dispFrame>>

DispatcherNext ==
    \/ subscribe
    \/ DispatchBegin
    \/ DispatchStep
    \/ \E c \in DOMAIN dchan : DRecv(c)
    \/ \E c \in DOMAIN dchan : DDropReceiver(c)
    \/ close_write

\* ------------------------------------------------------------ Boardcast
\* Mutant of NewChannel: the latest value is replayed to a new subscriber.
NewChannel_replay ==
    [q |-> latest, got |-> <<>>, rx |-> TRUE,
     since |-> Len(bhist.log), old |-> bhist.done]

\* mpsc::channel(): an empty unbounded channel with its receiver alive.
NewChannel ==
    [q |-> <<>>, got |-> <<>>, rx |-> TRUE,
     since |-> Len(bhist.log), old |-> bhist.done]

\* Mutant of send_loop: the index also advances after a removal.
RECURSIVE send_loop_skip(_, _, _, _)
send_loop_skip(senders, chans, idx, item) ==
    IF idx > Len(senders) THEN [senders |-> senders, chans |-> chans]
    ELSE IF ~chans[senders[idx]].rx
         THEN send_loop_skip(Remove(senders, idx), chans, idx + 1, item)
         ELSE send_loop_skip(senders,
                        [chans EXCEPT ![senders[idx]].q = Append(@, item)],
                        idx + 1, item)

\* The while loop of Boardcast::boardcast from index idx (1-based):
\* Sender::send fails exactly when the receiver was dropped; the entry is
\* then removed and the same index tried again.
RECURSIVE send_loop(_, _, _, _)
send_loop(senders, chans, idx, item) ==
    IF idx > Len(senders) THEN [senders |-> senders, chans |-> chans]
    ELSE IF ~chans[senders[idx]].rx
         THEN send_loop(Remove(senders, idx), chans, idx, item)
         ELSE send_loop(senders,
                        [chans EXCEPT ![senders[idx]].q = Append(@, item)],
                        idx + 1, item)

\* Mutant of store_latest: nothing is stored when nobody is subscribed.
store_latest_if_subscribed(cur, item) ==
    IF bsenders = <<>> THEN cur ELSE Some(item)

\* The second block of Boardcast::boardcast: *latest = Some(item.clone()),
\* whatever the cell `cur` held.
store_latest(cur, item) == Some(item)

\* Boardcast::new().
BoardcastNew ==
    /\ bsenders = <<>>
    /\ bchan = <<>>
    /\ bpending = {}
    /\ latest = None
    /\ bhist = [log |-> <<>>, done |-> {}, overlap |-> FALSE]

\* Boardcast::new(), or Boardcast::new_with(item 1): new() followed by
\* boardcast(1) with no subscriber.
BoardcastInit ==
    /\ bsenders = <<>>
    /\ bchan = <<>>
    /\ bpending = {}
    /\ \/ /\ latest = None
          /\ bhist = [log |-> <<>>, done |-> {}, overlap |-> FALSE]
       \/ /\ latest = store_latest(None, 1)
          /\ bhist = [log |-> <<1>>, done |-> {1}, overlap |-> FALSE]

new_subscriber ==
    /\ Len(bchan) < MaxSubs
    /\ bchan' = Append(bchan, NewChannel)
    /\ bsenders' = Append(bsenders, Len(bchan) + 1)
    /\ UNCHANGED <<latest, bpending, bhist, bcFrame>>

\* Boardcast::get_latest and Boardcast::len read under the lock and change
\* nothing: they are the values a caller gets in the current state.
get_latest == latest

len == Len(bsenders)

\* A thread calls boardcast(item): the first block, under the senders lock.
\* At most MaxThreads calls are between their two blocks.
BoardcastSend ==
    /\ Cardinality(bpending) < MaxThreads
    /\ Len(bhist.log) < MaxBcasts
    /\ LET item == Len(bhist.log) + 1
           r == send_loop(bsenders, bchan, 1, item)
       IN
       /\ bsenders' = r.senders
       /\ bchan' = r.chans
       /\ bpending' = bpending \cup {item}
       /\ bhist' = [bhist EXCEPT !.log = Append(@, item),
                                 !.overlap = (bpending # {})]
    /\ UNCHANGED <<latest, bcFrame>>

\* The thread that sent `item` finishes its boardcast call: the second
\* block, under the latest lock; the call returns.
BoardcastStore(item) ==
    /\ item \in bpending
    /\ latest' = store_latest(latest, item)
    /\ bpending' = bpending \ {item}
    /\ bhist' = [bhist EXCEPT !.done = @ \cup {item}]
    /\ UNCHANGED <<bsenders, bchan, bcFrame>>

clean ==
    /\ bsenders # <<>>
    /\ bsenders' = <<>>
    /\ UNCHANGED <<bchan, latest, bpending, bhist, bcFrame>>

\* A subscriber receives the next queued item of channel c.
BRecv(c) ==
    /\ bchan[c].rx
    /\ bchan[c].q # <<>>
    /\ bchan' = [bchan EXCEPT ![c].q = Tail(@),
                              ![c].got = Append(@, Head(bchan[c].q))]
    /\ UNCHANGED <<bsenders, latest, bpending, bhist, bcFrame>>

\* A subscriber drops its Receiver; what was queued is discarded.
BDropReceiver(c) ==
    /\ bchan[c].rx
    /\ bchan' = [bchan EXCEPT ![c].rx = FALSE, ![c].q = <<>>]
    /\ UNCHANGED <<bsenders, latest, bpending, bhist, bcFrame>>

\* What Receiver::try_recv gives on channel c of new_subscriber: a queued
\* item first; with nothing queued, Disconnected when the Sender is gone.
\* The only Sender of the channel is the entry pushed into senders.
BRecvOutcome(c) ==
    IF bchan[c].q # <<>> THEN "Ok"
    ELSE IF c \notin Range(bsenders) THEN "Disconnected"
    ELSE "Empty"

BoardcastNext ==
    \/ new_subscriber
    \/ BoardcastSend
    \/ \E item \in bpending : BoardcastStore(item)
    \/ clean
    \/ \E c \in DOMAIN bchan : BRecv(c)
    \/ \E c \in DOMAIN bchan : BDropReceiver(c)

\* ------------------------------- Alive::sleep_to, recv, iter, recv_iter
\* One thread calls sleep_to, recv and the next() of the two iterators on
\* tokens of the program; another thread holds the sender of the channel.
\* A blocked call (thread::sleep, recv_timeout) wakes when its time is up.

WRet(res, val) == [res |-> res, val |-> val]

WIdle ==
    [pc |-> "idle", op |-> "none", tok |-> 1, target |-> 0, wake |-> 0,
     poll |-> 0, start |-> 0, n |-> 0, ret |-> WRet("none", 0), at |-> 0]

WaitInit ==
    /\ wt = WIdle
    /\ wch = [buf |-> <<>>, tx |-> TRUE, sent |-> <<>>]
    /\ wout = [coll |-> [k \in 1 .. MaxItems |-> k], out |-> <<>>, got |-> <<>>]

\* A new call `op` on token i by the waiting thread.
WCall(op, i) == [WIdle EXCEPT !.op = op, !.tok = i, !.n = wt.n + 1]

WCanCall == wt.pc \in {"idle", "done"} /\ wt.n < MaxOps

WReturn(w, res, val) == [w EXCEPT !.pc = "done", !.ret = WRet(res, val)]

\* Alive::remain_time: the token's own deadline minus Time::now().
remain_time(self) ==
    IF self.deadline # None THEN Some(self.deadline[1] - now) ELSE None

\* What Receiver::recv_timeout yields on the channel; `expired` tells that
\* the timeout has elapsed.
recv_timeout(ch, expired) ==
    IF ch.buf # <<>> THEN "Ok"
    ELSE IF ~ch.tx THEN "Disconnected"
    ELSE IF expired THEN "Timeout"
    ELSE "Blocked"

\* The head of the loop of Alive::sleep_to up to thread::sleep; `at` records
\* the time of the return.
SleepToIter(w) ==
    IF ~is_alive(toks[w.tok]) THEN [WReturn(w, "unit", 0) EXCEPT !.at = now]
    ELSE IF now >= w.target THEN [WReturn(w, "unit", 0) EXCEPT !.at = now]
    ELSE [w EXCEPT !.pc = "sleeping",
                   !.wake = now + MinOf(w.target - now, MaxSleep)]

\* sleep_to(target) is called on token i.
SleepToBegin(i, target) ==
    /\ WCanCall
    /\ target > now
    /\ wt' = SleepToIter([WCall("sleep_to", i) EXCEPT !.target = target,
                                                      !.start = now])
    /\ UNCHANGED <<wch, wout, aliveVars, waitFrame>>

\* thread::sleep returns and the loop runs again.
SleepToWake ==
    /\ wt.pc = "sleeping"
    /\ now >= wt.wake
    /\ wt' = SleepToIter(wt)
    /\ UNCHANGED <<wch, wout, aliveVars, waitFrame>>

\* recv(r) is called on token i: the head of the loop of Alive::recv up to
\* recv_timeout.
RecvBegin(i) ==
    /\ WCanCall
    /\ LET w == WCall("recv", i)
           self == toks[i]
           rt == remain_time(self)
           timeout == IF rt # None /\ rt[1] >= 0 /\ rt[1] < MaxSleep
                      THEN rt[1] ELSE MaxSleep
       IN wt' = IF ~is_alive(self) THEN WReturn(w, "Timeout", 0)
                ELSE [w EXCEPT !.pc = "waiting", !.wake = now + timeout]
    /\ UNCHANGED <<wch, wout, aliveVars, waitFrame>>

\* recv_timeout returns inside Alive::recv: Timeout leaves the loop, the
\* other outcomes are returned as they are.
RecvPoll ==
    /\ wt.pc = "waiting"
    /\ LET r == recv_timeout(wch, now >= wt.wake)
       IN /\ r # "Blocked"
          /\ IF r = "Ok"
             THEN /\ wt' = WReturn(wt, "Ok", Head(wch.buf))
                  /\ wch' = [wch EXCEPT !.buf = Tail(@)]
             ELSE /\ wt' = WReturn(wt, r, 0)
                  /\ wch' = wch
    /\ UNCHANGED <<wout, aliveVars, waitFrame>>

\* Mutant of AliveIterGate: the liveness test always passes.
AliveIterGate_open(self) == TRUE

\* The test at the head of AliveIter::next.
AliveIterGate(self) == is_alive(self)

\* next() on token i's iter(collection).
AliveIterNext(i) ==
    /\ WCanCall
    /\ LET w == WCall("iter", i)
       IN IF ~AliveIterGate(toks[i]) \/ wout.coll = <<>>
          THEN /\ wt' = WReturn(w, "None", 0)
               /\ wout' = wout
          ELSE /\ wt' = WReturn(w, "Some", Head(wout.coll))
               /\ wout' = [wout EXCEPT !.coll = Tail(@),
                                       !.out = Append(@, Head(wout.coll))]
    /\ UNCHANGED <<wch, aliveVars, waitFrame>>

\* next() on token i's recv_iter(r, poll): the test of AliveIter::next, then
\* RecvIter::next enters recv_timeout(poll).
RecvIterBegin(i, poll) ==
    /\ WCanCall
    /\ LET w == [WCall("recv_iter", i) EXCEPT !.poll = poll]
       IN wt' = IF ~AliveIterGate(toks[i]) THEN WReturn(w, "None", 0)
                ELSE [w EXCEPT !.pc = "polling", !.wake = now + poll]
    /\ UNCHANGED <<wch, wout, aliveVars, waitFrame>>

\* recv_timeout returns inside RecvIter::next.
RecvIterPoll ==
    /\ wt.pc = "polling"
    /\ LET r == recv_timeout(wch, now >= wt.wake)
       IN /\ r # "Blocked"
          /\ IF r = "Ok"
             THEN /\ wt' = WReturn(wt, "Some", Head(wch.buf))
                  /\ wch' = [wch EXCEPT !.buf = Tail(@)]
                  /\ wout' = [wout EXCEPT !.got = Append(@, Head(wch.buf))]
             ELSE /\ wt' = IF r = "Disconnected" THEN WReturn(wt, "None", 0)
                           ELSE IF ~is_alive(toks[wt.tok])
                                THEN WReturn(wt, "None", 0)
                                ELSE [wt EXCEPT !.wake = now + wt.poll]
                  /\ UNCHANGED <<wch, wout>>
    /\ UNCHANGED <<aliveVars, waitFrame>>

\* The thread holding the sender sends the next item.
WSend ==
    /\ wch.tx
    /\ Len(wch.sent) < MaxItems
    /\ wch' = [wch EXCEPT !.buf = Append(@, Len(wch.sent) + 1),
                          !.sent = Append(@, Len(wch.sent) + 1)]
    /\ UNCHANGED <<wt, wout, aliveVars, waitFrame>>

\* The sender is dropped.
WDropSender ==
    /\ wch.tx
    /\ wch' = [wch EXCEPT !.tx = FALSE]
    /\ UNCHANGED <<wt, wout, aliveVars, waitFrame>>

\* The clock advances; a blocked call whose time is up returns first.
WaitTick ==
    /\ now < MaxClock
    /\ wt.pc \in {"sleeping", "waiting", "polling"} => now < wt.wake
    /\ now' = now + 1
    /\ UNCHANGED <<flags, toks, nwd, waitVars, waitFrame>>

Targets == 1 .. MaxClock
Polls == 1 .. MaxPoll

\* Each specification runs one kind of call next to the other threads of
\* the program, which shut tokens down, and the clock.
SleepNext ==
    \/ \E i \in TokIds : Shutdown(i)
    \/ WaitTick
    \/ \E i \in TokIds, target \in Targets : SleepToBegin(i, target)
    \/ SleepToWake

RecvNext ==
    \/ \E i \in TokIds : Shutdown(i)
    \/ WaitTick
    \/ \E i \in TokIds : RecvBegin(i)
    \/ RecvPoll
    \/ WSend
    \/ WDropSender

IterNext ==
    \/ \E i \in TokIds : Shutdown(i)
    \/ WaitTick
    \/ \E i \in TokIds : AliveIterNext(i)
    \/ \E i \in TokIds, poll \in Polls : RecvIterBegin(i, poll)
    \/ RecvIterPoll
    \/ WSend
    \/ WDropSender

\* ------------------------------------------------------------ parallel
\* parallel(alive, tasks, worker, f) is called with the program's root token
\* as `alive`, tasks 1 .. n and w workers. The token forked at thread.rs:57
\* is the last one in `toks`; worker x receives from channel x of the private
\* Dispatcher. The handler f is any function: each invocation returns Ok,
\* returns Err or panics.

ParIdle == [pc |-> "idle", n |-> 0, w |-> 0, k |-> 0, cur |-> 0, ret |-> 0]

ParInit ==
    /\ pm = ParIdle
    /\ pw = <<>>
    /\ pcnt = 0
    /\ ph = [inv |-> 0, seen |-> {}, npanic |-> 0, fail |-> FALSE,
             c0 |-> None, after |-> <<>>, closeBuf |-> FALSE, acc |-> <<>>]

\* The caller's token and the token forked from it.
ParCaller == toks[1]
ParAlive == toks[Len(toks)]

HandlerOutcomes == {"ok", "err", "panic"}

\* thread.rs:57-83: the fork, the Dispatcher, the counter and the workers,
\* each with its own subscription, made in the calling thread.
ParallelBegin(n, w) ==
    /\ pm.pc = "idle"
    /\ flags' = Append(flags, TRUE)
    /\ toks' = Append(toks, fork(ParCaller, NewCell))
    /\ dchan' = [c \in 1 .. w |-> [buf |-> <<>>, rx |-> TRUE]]
    /\ dsenders' = [c \in 1 .. w |-> c]
    /\ pm' = [ParIdle EXCEPT !.pc = "iter", !.n = n, !.w = w, !.k = 1]
    /\ pw' = [x \in 1 .. w |-> [pc |-> "next", item |-> 0]]
    /\ pcnt' = 0
    /\ ph' = [ph EXCEPT !.after = [x \in 1 .. w |-> 0]]
    /\ UNCHANGED <<now, nwd, dcall, dlast, dclosed, parFrame>>

\* The state of a dispatch call that has taken the senders lock (the
\* history fields of the call are those of its start).
DispatchCall(t) ==
    [pc |-> "scan", idx |-> 1, t |-> t, avail |-> SomeSlotFree,
     nsubs |-> Len(dsenders), interf |-> FALSE, s0 |-> dsenders,
     ch0 |-> dchan]

\* thread.rs:84-85: next() of alive.iter(tasks), then dispatch(task) is
\* entered; the passes of its scan are DispatchStep.
ParIterNext ==
    /\ pm.pc = "iter"
    /\ IF ~AliveIterGate(ParAlive) \/ pm.k > pm.n
       THEN /\ pm' = [pm EXCEPT !.pc = "close"]
            /\ dcall' = dcall
       ELSE /\ pm' = [pm EXCEPT !.pc = "dispatch", !.cur = pm.k, !.k = pm.k + 1]
            /\ dcall' = DispatchCall(pm.k)
    /\ UNCHANGED <<aliveVars, dsenders, dchan, dlast, dclosed, pw, pcnt, ph,
                   parFrame>>

\* thread.rs:86-95: the match on the result of dispatch. On Some(task) the
\* task given back is the one in hand for the retry.
ParDispatchReturn ==
    /\ pm.pc = "dispatch"
    /\ dcall.pc = "idle"
    /\ pm' = IF dlast.ret = None THEN [pm EXCEPT !.pc = "iter"]
             ELSE [pm EXCEPT !.pc = "sleep", !.cur = dlast.ret[1]]
    /\ ph' = IF dlast.ret = None THEN [ph EXCEPT !.acc = Append(@, pm.cur)]
             ELSE ph
    /\ dlast' = [n |-> 0, rets |-> <<>>]
    /\ UNCHANGED <<aliveVars, dsenders, dchan, dcall, dclosed, pw, pcnt,
                   parFrame>>

\* thread.rs:89-92: alive.sleep_ms(100) returns is_alive(); on true the task
\* is dispatched again, on false it is dropped.
ParSleepReturn ==
    /\ pm.pc = "sleep"
    /\ IF is_alive(ParAlive)
       THEN /\ pm' = [pm EXCEPT !.pc = "dispatch"]
            /\ dcall' = DispatchCall(pm.cur)
       ELSE /\ pm' = [pm EXCEPT !.pc = "iter"]
            /\ dcall' = dcall
    /\ UNCHANGED <<aliveVars, dsenders, dchan, dlast, dclosed, pw, pcnt, ph,
                   parFrame>>

\* thread.rs:98: dispatcher.close_write() (see close_write).
ParCloseWrite ==
    /\ pm.pc = "close"
    /\ dsenders' = <<>>
    /\ dclosed' = dclosed \cup Range(dsenders)
    /\ pm' = [pm EXCEPT !.pc = "join"]
    /\ ph' = [ph EXCEPT !.closeBuf = \E c \in DOMAIN dchan : dchan[c].buf # <<>>]
    /\ UNCHANGED <<aliveVars, dchan, dcall, dlast, pw, pcnt, parFrame>>

WorkerEnded(x) == pw[x].pc \in {"exit", "panicked"}

\* thread.rs:99-102: every handle is joined, the result of join is ignored,
\* the counter is returned.
ParJoin ==
    /\ pm.pc = "join"
    /\ \A x \in DOMAIN pw : WorkerEnded(x)
    /\ pm' = [pm EXCEPT !.pc = "done", !.ret = pcnt]
    /\ UNCHANGED <<aliveVars, dispVars, pw, pcnt, ph, parFrame>>

\* Mutant of DeferFunc_drop: the guard never shuts the token down.
DeferFunc_drop_never(panicking, self) == flags

\* thread.rs:68-72 run by DeferFunc::drop: the content of the flag cells
\* after the guard of a worker has run.
DeferFunc_drop(panicking, self) ==
    IF panicking THEN shutdown(self) ELSE flags

\* The worker closure returns: its guard runs and its receiver is dropped.
WorkerExit(x) ==
    /\ pw' = [pw EXCEPT ![x].pc = "exit"]
    /\ flags' = DeferFunc_drop(FALSE, ParAlive)
    /\ dchan' = [dchan EXCEPT ![x] = [buf |-> <<>>, rx |-> FALSE]]
    /\ dcall' = dcall

\* thread.rs:73 with trace.rs:191-194: the test of AliveIter::next.
ParWorkerNext(x) ==
    /\ pw[x].pc = "next"
    /\ IF ~AliveIterGate(ParAlive)
       THEN WorkerExit(x)
       ELSE /\ pw' = [pw EXCEPT ![x].pc = "recv"]
            /\ UNCHANGED <<flags, dchan, dcall>>
    /\ UNCHANGED <<now, toks, nwd, dsenders, dlast, dclosed, pm, pcnt, ph,
                   parFrame>>

\* trace.rs:166-178: recv_timeout returns inside RecvIter::next. Ok hands
\* the item to the handler; a timeout on a live token polls again.
ParWorkerRecv(x) ==
    /\ pw[x].pc = "recv"
    /\ LET r == RecvOutcome(x)
       IN IF r = "Ok"
          THEN /\ pw' = [pw EXCEPT ![x] = [pc |-> "handle",
                                            item |-> Head(dchan[x].buf)]]
               /\ dchan' = [dchan EXCEPT ![x].buf = Tail(@)]
               /\ dcall' = dcall
               /\ ph' = [ph EXCEPT
                           !.inv = @ + 1,
                           !.seen = @ \cup {Head(dchan[x].buf)},
                           !.after[x] = IF flags[ParAlive.alive] THEN @
                                        ELSE @ + 1]
               /\ flags' = flags
          ELSE /\ r = "Disconnected" \/ ~is_alive(ParAlive)
               /\ WorkerExit(x)
               /\ ph' = ph
    /\ UNCHANGED <<now, toks, nwd, dsenders, dlast, dclosed, pm, pcnt,
                   parFrame>>

\* Mutant of fetch_add: the counter is left as it is.
fetch_add_none(c) == c

\* thread.rs:78: processed.fetch_add(1, SeqCst).
fetch_add(c) == c + 1

\* thread.rs:74-78 and 68-72: the handler invocation ends. Ok: the counter
\* is incremented. Err: the token is shut down, then the counter is
\* incremented (it is read only after the workers are joined). Panic: the
\* guard shuts the token down, the receiver is dropped and the thread ends
\* without the increment.
ParHandlerReturn(x, o) ==
    /\ pw[x].pc = "handle"
    /\ IF o = "ok"
       THEN /\ pw' = [pw EXCEPT ![x].pc = "next"]
            /\ pcnt' = fetch_add(pcnt)
            /\ UNCHANGED <<flags, dchan, dcall, ph>>
       ELSE IF o = "err"
       THEN /\ pw' = [pw EXCEPT ![x].pc = "next"]
            /\ flags' = shutdown(ParAlive)
            /\ pcnt' = fetch_add(pcnt)
            /\ ph' = [ph EXCEPT !.fail = TRUE,
                                !.c0 = IF @ = None THEN Some(pcnt) ELSE @]
            /\ UNCHANGED <<dchan, dcall>>
       ELSE /\ pw' = [pw EXCEPT ![x].pc = "panicked"]
            /\ flags' = DeferFunc_drop(TRUE, ParAlive)
            /\ dchan' = [dchan EXCEPT ![x] = [buf |-> <<>>, rx |-> FALSE]]
            /\ dcall' = dcall
            /\ ph' = [ph EXCEPT !.npanic = @ + 1]
            /\ pcnt' = pcnt
    /\ UNCHANGED <<now, toks, nwd, dsenders, dlast, dclosed, pm, parFrame>>

\* Another thread of the program shuts the caller's token down.
CallerShutdown ==
    /\ flags[ParCaller.alive]
    /\ Shutdown(1)

MainStep ==
    \/ ParIterNext
    \/ DispatchStep
    \/ ParDispatchReturn
    \/ ParSleepReturn
    \/ ParCloseWrite
    \/ ParJoin

WorkerStep(x) ==
    \/ ParWorkerNext(x)
    \/ ParWorkerRecv(x)
    \/ \E o \in HandlerOutcomes : ParHandlerReturn(x, o)

ParNext ==
    \/ \E n \in 0 .. MaxTasks, w \in 0 .. MaxWorkers : ParallelBegin(n, w)
    \/ ParIterNext
    \/ DispatchStep
    \/ ParDispatchReturn
    \/ ParSleepReturn
    \/ ParCloseWrite
    \/ ParJoin
    \/ \E x \in DOMAIN pw : ParWorkerNext(x)
    \/ \E x \in DOMAIN pw : ParWorkerRecv(x)
    \/ \E x \in DOMAIN pw, o \in HandlerOutcomes : ParHandlerReturn(x, o)
    \/ CallerShutdown

\* Time passes until the deadline of the caller's token is reached (the
\* clock matters to parallel() only through is_alive).
CallerDeadlinePasses ==
    /\ ParCaller.deadline # None
    /\ now < ParCaller.deadline[1]
    /\ now' = ParCaller.deadline[1]
    /\ UNCHANGED <<flags, toks, nwd, aliveFrame>>

ParTimedNext ==
    \/ \E n \in 0 .. MaxTasks, w \in 0 .. MaxWorkers : ParallelBegin(n, w)
    \/ ParIterNext
    \/ DispatchStep
    \/ ParDispatchReturn
    \/ ParSleepReturn
    \/ ParCloseWrite
    \/ ParJoin
    \/ \E x \in DOMAIN pw : ParWorkerNext(x)
    \/ \E x \in DOMAIN pw : ParWorkerRecv(x)
    \/ \E x \in DOMAIN pw, o \in HandlerOutcomes : ParHandlerReturn(x, o)
    \/ CallerShutdown
    \/ CallerDeadlinePasses

\* parallel() called with worker == 0: no thread is spawned, the calling
\* thread is the only one of the call.
ParNoWorkerNext ==
    \/ \E n \in 0 .. MaxTasks : ParallelBegin(n, 0)
    \/ ParIterNext
    \/ DispatchStep
    \/ ParDispatchReturn
    \/ ParSleepReturn
    \/ ParCloseWrite
    \/ ParJoin
    \/ CallerShutdown
    \/ CallerDeadlinePasses

\* --------------------------------------------------------------- LruMap
\* A BTreeMap is a function with a finite domain; iteration is by ascending
\* key. An entry of `value` is the pair <<v, seq>>.
EmptyMap == <<>>

MapInsert(f, k, v) ==
    [x \in DOMAIN f \cup {k} |-> IF x = k THEN v ELSE f[x]]

MapRemove(f, k) == [x \in DOMAIN f \ {k} |-> f[x]]

MapGet(f, k) == IF k \in DOMAIN f THEN Some(f[k]) ELSE None

Keys == 1 .. MaxKeys
Vals == 1 .. MaxVals

\* LruMap::new.
LruMap_new(limit) ==
    [seq |-> 0, order |-> EmptyMap, value |-> EmptyMap, limit |-> limit]

\* LruMap::clear: both maps are emptied, seq is kept.
LruMap_clear(self) == [self EXCEPT !.order = EmptyMap, !.value = EmptyMap]

LruMap_contains_key(self, k) == k \in DOMAIN self.value

LruMap_peek(self, k) ==
    IF k \in DOMAIN self.value THEN Some(self.value[k][1]) ELSE None

LruMap_len(self) == Cardinality(DOMAIN self.value)

\* LruMap::modify hands out &mut V; the caller writes v through it.
LruMap_modify(self, k, v) ==
    IF k \in DOMAIN self.value
    THEN [self |-> [self EXCEPT !.value[k] = <<v, @[2]>>], ret |-> Some(v)]
    ELSE [self |-> self, ret |-> None]

\* Mutant of LruMap_get: the entry is returned without a new sequence
\* number.
LruMap_get_norefresh(self, k) ==
    [self |-> self, ret |-> LruMap_peek(self, k)]

\* LruMap::get: a present entry gets the next sequence number; its order
\* entry is moved (or made from k when the old one is missing).
LruMap_get(self, k) ==
    IF k \in DOMAIN self.value
    THEN LET seq1 == self.seq + 1
             old == self.value[k][2]
             moved == IF old \in DOMAIN self.order THEN self.order[old] ELSE k
         IN [self |-> [self EXCEPT
                          !.seq = seq1,
                          !.order = MapInsert(MapRemove(@, old), seq1, moved),
                          !.value[k] = <<@[1], seq1>>],
             ret |-> Some(self.value[k][1])]
    ELSE [self |-> self, ret |-> None]

\* Mutant of first_key: the largest sequence number is taken.
first_key_last(order) == CHOOSE x \in DOMAIN order : \A y \in DOMAIN order : y <= x

\* self.order.iter().next(): the smallest sequence number of the order map.
first_key(order) == CHOOSE x \in DOMAIN order : \A y \in DOMAIN order : x <= y

\* The while loop of LruMap::insert: entries leave from the front of the
\* order map until it fits the limit; out is the value removed last.
RECURSIVE evict(_, _)
evict(self, out) ==
    IF Cardinality(DOMAIN self.order) > self.limit
    THEN LET seq == first_key(self.order)
             key == self.order[seq]
         IN evict([self EXCEPT !.order = MapRemove(@, seq),
                               !.value = MapRemove(@, key)],
                  IF key \in DOMAIN self.value
                  THEN Some(self.value[key][1]) ELSE None)
    ELSE [self |-> self, ret |-> out]

\* Mutant of occupied: the given value replaces the stored one.
occupied_store(entry, v, seq) == <<v, seq>>

\* Entry::Occupied of LruMap::insert: entry.get_mut().1 = self.seq; the
\* value part of the entry is left as it is.
occupied(entry, v, seq) == <<entry[1], seq>>

\* LruMap::insert.
LruMap_insert(self, k, v) ==
    LET seq1 == self.seq + 1
    IN IF k \in DOMAIN self.value
       THEN [self |-> [self EXCEPT
                          !.seq = seq1,
                          !.value[k] = occupied(@, v, seq1),
                          !.order = MapInsert(MapRemove(@, self.value[k][2]),
                                              seq1, k)],
             ret |-> None]
       ELSE evict([self EXCEPT !.seq = seq1,
                               !.value = MapInsert(@, k, <<v, seq1>>),
                               !.order = MapInsert(@, seq1, k)],
                  None)

\* Mutant of LruMap_remove: the order entry is left behind.
LruMap_remove_value_only(self, k) ==
    IF k \in DOMAIN self.value
    THEN [self |-> [self EXCEPT !.value = MapRemove(@, k)],
          ret |-> Some(self.value[k][1])]
    ELSE [self |-> self, ret |-> None]

\* LruMap::remove.
LruMap_remove(self, k) ==
    IF k \in DOMAIN self.value
    THEN [self |-> [self EXCEPT !.value = MapRemove(@, k),
                                !.order = MapRemove(@, self.value[k][2])],
          ret |-> Some(self.value[k][1])]
    ELSE [self |-> self, ret |-> None]

\* LruMap::append: the entries of `other` are inserted by ascending key;
\* the values insert returned are collected.
RECURSIVE append_loop(_, _, _)
append_loop(self, other, outs) ==
    IF DOMAIN other = {} THEN [self |-> self, ret |-> outs]
    ELSE LET k == CHOOSE x \in DOMAIN other : \A y \in DOMAIN other : x <= y
             r == LruMap_insert(self, k, other[k])
         IN append_loop(r.self, MapRemove(other, k),
                        IF r.ret # None THEN Append(outs, r.ret[1]) ELSE outs)

LruMap_append(self, other) == append_loop(self, other, <<>>)

\* History: the keys of `keys` (in that order) become the most recent ones
\* of rec; keys that are no longer in the map `m` leave rec.
RECURSIVE Touch(_, _)
Touch(rec, keys) ==
    IF keys = <<>> THEN rec
    ELSE Touch(Append(SelectSeq(rec, LAMBDA x : x # Head(keys)), Head(keys)),
               Tail(keys))

Recency(rec, keys, m) ==
    SelectSeq(Touch(rec, keys), LAMBDA x : x \in DOMAIN m.value)

\* The keys of a map in ascending order.
RECURSIVE KeySeq(_)
KeySeq(S) ==
    IF S = {} THEN <<>>
    ELSE LET k == CHOOSE x \in S : \A y \in S : x <= y
         IN <<k>> \o KeySeq(S \ {k})

\* History: the last insert or append call: its name, the arguments of
\* insert and what the call returned.
LastCall(op, k, v, ret) == [op |-> op, k |-> k, v |-> v, ret |-> ret]

NoCall == LastCall("new", 0, 0, None)

\* The program has built LruMap::new(limit).
LruInit ==
    \E limit \in 0 .. MaxLimit :
        lru = [m |-> LruMap_new(limit), rec |-> <<>>, last |-> NoCall]

\* The program uses no LruMap.
LruUnused == lru = [m |-> LruMap_new(0), rec |-> <<>>, last |-> NoCall]

\* One call on the map: `self` is what the call makes of the map, keys are
\* the present keys the call inserted or got, last is the history.
LruCall(self, keys, last) ==
    /\ lru' = [m |-> self, rec |-> Recency(lru.rec, keys, self), last |-> last]
    /\ UNCHANGED lruFrame

LruInsert(k, v) ==
    /\ lru.m.seq < MaxSeq
    /\ LET r == LruMap_insert(lru.m, k, v)
       IN LruCall(r.self, <<k>>, LastCall("insert", k, v, r.ret))

LruGet(k) ==
    /\ lru.m.seq < MaxSeq
    /\ LruCall(LruMap_get(lru.m, k).self,
               IF LruMap_contains_key(lru.m, k) THEN <<k>> ELSE <<>>,
               lru.last)

\* peek and contains_key take &self: the map is left as it is.
LruPeek(k) ==
    /\ LruMap_peek(lru.m, k) \in {None} \cup {Some(v) : v \in Vals}
    /\ LruCall(lru.m, <<>>, lru.last)

LruContainsKey(k) ==
    /\ LruMap_contains_key(lru.m, k) \in BOOLEAN
    /\ LruCall(lru.m, <<>>, lru.last)

LruModify(k, v) ==
    /\ k \in Keys
    /\ LruCall(LruMap_modify(lru.m, k, v).self, <<>>, lru.last)

LruRemove(k) ==
    /\ k \in Keys
    /\ LruCall(LruMap_remove(lru.m, k).self, <<>>, lru.last)

LruClear ==
    /\ lru.m.value # EmptyMap
    /\ LruCall(LruMap_clear(lru.m), <<>>, lru.last)

LruAppend(other) ==
    /\ other # EmptyMap
    /\ lru.m.seq + Cardinality(DOMAIN other) <= MaxSeq
    /\ LET r == LruMap_append(lru.m, other)
       IN LruCall(r.self, KeySeq(DOMAIN other),
                  LastCall("append", 0, 0, r.ret))

\* The maps a caller passes to append: any keys, all with one value.
OtherMaps == {[x \in S |-> v] : S \in SUBSET Keys, v \in Vals}

LruNext ==
    \/ \E k \in Keys, v \in Vals : LruInsert(k, v)
    \/ \E k \in Keys : LruGet(k)
    \/ \E k \in Keys : LruPeek(k)
    \/ \E k \in Keys : LruContainsKey(k)
    \/ \E k \in Keys, v \in Vals : LruModify(k, v)
    \/ \E k \in Keys : LruRemove(k)
    \/ LruClear
    \/ \E other \in OtherMaps : LruAppend(other)

\* ------------------------------------------------------- specifications
\* Each specification runs the operations of one subsystem from its
\* constructors; the other subsystems stay as constructed.
Init == AliveInit /\ DispatcherInit /\ BoardcastNew /\ WaitInit /\ ParInit
    /\ LruUnused

SpecAlive == Init /\ [][AliveNext]_vars

SpecDispatcher == Init /\ [][DispatcherNext]_vars

InitBoardcast ==
    AliveInit /\ DispatcherInit /\ BoardcastInit /\ WaitInit /\ ParInit
    /\ LruUnused

SpecBoardcast == InitBoardcast /\ [][BoardcastNext]_vars

\* The waiting thread starts in a program that holds a root token and one
\* fork of it, made with fork() or with fork_with_deadline(d).
AliveInitForked ==
    /\ now = 0
    /\ flags = <<TRUE, TRUE>>
    /\ \E child \in {fork(Alive_new(1), 2)}
            \cup {fork_with_deadline(Alive_new(1), 2, d) : d \in Deadlines} :
          toks = <<Alive_new(1), child>>
    /\ nwd = 0

InitWait ==
    AliveInitForked /\ DispatcherInit /\ BoardcastNew /\ WaitInit /\ ParInit
    /\ LruUnused

SpecSleep == InitWait /\ [][SleepNext]_vars

SpecRecv == InitWait /\ [][RecvNext]_vars

SpecIter == InitWait /\ [][IterNext]_vars

SpecParallel == Init /\ [][ParNext]_vars

\* The threads of parallel() keep being scheduled and a handler invocation
\* ends: as long as some thread of the call can take a step, one does.
SpecParallelFair ==
    /\ SpecParallel
    /\ WF_vars(MainStep \/ \E x \in DOMAIN pw : WorkerStep(x))

\* The caller of parallel() holds a token made by Alive::new(), or by
\* Alive::new().with_deadline(MaxTime).
AliveInitCaller ==
    /\ now = 0
    /\ flags = <<TRUE>>
    /\ toks \in {<<Alive_new(1)>>, <<with_deadline(Alive_new(1), MaxTime)>>}
    /\ nwd = 0

InitParallel ==
    AliveInitCaller /\ DispatcherInit /\ BoardcastNew /\ WaitInit /\ ParInit
    /\ LruUnused

\* Every thread of parallel() is scheduled on its own: the calling thread
\* keeps running, and each worker keeps running and its handler invocation
\* ends, whatever the other threads do. The caller's token can be shut
\* down or pass its deadline at any moment, or never.
SpecParallelThreads ==
    /\ InitParallel
    /\ [][ParTimedNext]_vars
    /\ WF_vars(MainStep)
    /\ \A x \in 1 .. MaxWorkers : WF_vars(x \in DOMAIN pw /\ WorkerStep(x))

\* parallel() with worker == 0; the calling thread keeps running.
SpecParallelNoWorker ==
    /\ InitParallel
    /\ [][ParNoWorkerNext]_vars
    /\ WF_vars(MainStep)

InitLru ==
    AliveInit /\ DispatcherInit /\ BoardcastNew /\ WaitInit /\ ParInit
    /\ LruInit

SpecLru == InitLru /\ [][LruNext]_vars

\* ------------------------------------------------ Alive: claims C1 - C4

\* The tokens on the chain from `self` up to the root, `self` first: the
\* values is_alive walks through the parent field.
RECURSIVE Chain(_)
Chain(self) ==
    <<self>> \o (IF self.parent = None THEN <<>> ELSE Chain(self.parent[1]))

\* One token, taken alone: its own flag is true and it has no deadline or a
\* deadline strictly later than the current time.
NodeOk(n) == flags[n.alive] /\ (n.deadline = None \/ now < n.deadline[1])

\* The tokens whose chain passes through the cell of token i (i included).
DescOrSelf(i) ==
    {j \in TokIds :
        \E k \in DOMAIN Chain(toks[j]) : Chain(toks[j])[k].alive = toks[i].alive}

\* C1: is_alive() of a token is true exactly when every token on its chain
\* up to the root has its flag true and no deadline or a deadline strictly
\* later than now; hence a token with a shut-down ancestor reports dead.
C1_AliveIffChainOk ==
    \A i \in TokIds :
        LET ch == Chain(toks[i]) IN
        /\ is_alive(toks[i]) <=> \A k \in DOMAIN ch : NodeOk(ch[k])
        /\ (\E k \in DOMAIN ch : ~flags[ch[k].alive]) => ~is_alive(toks[i])

\* C1 witness: time has passed; a token two forks below the root, whose own
\* flag is true and whose deadline is still in the future, reports dead
\* because the root was shut down.
C1_Witness ==
    \E i \in TokIds :
        LET ch == Chain(toks[i]) IN
        /\ now > 0
        /\ Len(ch) = 3
        /\ toks[i].deadline # None
        /\ NodeOk(ch[1]) /\ NodeOk(ch[2])
        /\ ~flags[ch[3].alive]
        /\ ~is_alive(toks[i])

\* C2 (as claimed): once a token reports dead, it and all its descendants
\* report dead after every later step.
C2_DeathIsPermanent ==
    [][\A i \in TokIds :
          ~is_alive(toks[i]) =>
              \A j \in DescOrSelf(i)' : ~is_alive(toks[j])']_vars

\* C3: shutdown() of a forked token leaves is_alive() of every token that
\* is not the token itself or one of its descendants (its parent, the other
\* ancestors, its siblings and their descendants) as it was.
C3_ShutdownFrame ==
    [][(flags' # flags) =>
          \A c \in TokIds :
              (toks[c].parent # None /\ Shutdown(c)) =>
                  \A t \in TokIds \ DescOrSelf(c) :
                      is_alive(toks[t])' = is_alive(toks[t])]_vars

\* C3 witness: a forked token has been shut down and reports dead while its
\* parent and a sibling fork of the same parent report alive.
C3_Witness ==
    \E c, s \in TokIds :
        /\ c # s
        /\ toks[c].parent # None /\ toks[s].parent # None
        /\ toks[c].parent[1].alive = toks[s].parent[1].alive
        /\ ~flags[toks[c].alive] /\ ~is_alive(toks[c])
        /\ is_alive(toks[s])
        /\ is_alive(toks[c].parent[1])

\* a <= b on Option<Time> deadlines, None being infinite.
DeadlineLe(a, b) == b = None \/ (a # None /\ a[1] <= b[1])

\* C4 (as claimed): the deadline a token holds is never later than the
\* deadline held by any token on its chain up to the root.
C4_DeadlineOnlyTightens ==
    \A i \in TokIds :
        LET ch == Chain(toks[i]) IN
        \A k \in DOMAIN ch : DeadlineLe(toks[i].deadline, ch[k].deadline)

\* -------------------------------------------- Dispatcher: claims C5 - C7

\* The subscriber slots that hold item t.
ItemSlotsIn(chans, t) == {c \in DOMAIN chans : t \in Range(chans[c].buf)}
ItemSlots(t) == ItemSlotsIn(dchan, t)

\* C5 (as claimed): a completed dispatch call returned None exactly when, at
\* the time of the call, some registered subscriber was connected and had an
\* empty slot.
C5_NoneIffFreeAtCall ==
    dlast.n > 0 => ((dlast.ret = None) <=> dlast.avail)

\* C5 (amended): dispatch never waits (a call in its loop can always take
\* its next pass); when it returns, the result is None or Some(the item);
\* it is None exactly when the item has been put in one subscriber slot,
\* and with Some(item) the item is in no slot; and if no consumer received
\* or dropped its receiver while the call ran, it is None exactly when some
\* registered subscriber was connected with an empty slot at the call.
C5_DispatchOutcome ==
    [][/\ (dcall.pc = "scan" => ENABLED DispatchStep)
       /\ (dlast' # dlast) =>
            LET d == dlast' IN
            /\ d.ret \in {None, Some(d.t)}
            /\ (d.ret = None) <=> (ItemSlotsIn(dchan', d.t) = {d.slot} /\ d.slot # 0)
            /\ (d.ret # None) => (ItemSlotsIn(dchan', d.t) = {})
            /\ ~d.interf => ((d.ret = None) <=> d.avail)]_vars

\* C5 witness: with two subscribers and no consumer acting during the call,
\* the first was full and the item went to the second; the call before it
\* was refused.
C5_Witness ==
    /\ dlast.n >= 2
    /\ dlast.nsubs = 2 /\ ~dlast.interf
    /\ dlast.ret = None /\ dlast.slot = 2
    /\ ItemSlots(dlast.t) = {2}
    /\ \E k \in DOMAIN dlast.rets : dlast.rets[k] # None

\* C6: a subscriber slot never holds more than one item, and with exactly
\* one subscriber a dispatch is accepted exactly when that subscriber is
\* connected and its slot is empty at the call: refused while the previous
\* item has not been received, accepted again once it has.
C6_SlotHoldsOne ==
    /\ \A c \in DOMAIN dchan : Len(dchan[c].buf) <= 1
    /\ (dlast.n > 0 /\ dlast.nsubs = 1) =>
          ((dlast.ret = None) <=> dlast.avail)

\* C6 witness: one subscriber; dispatch(1) accepted, dispatch(2) refused,
\* item 1 received, dispatch(3) accepted.
C6_Witness ==
    /\ Len(dchan) = 1 /\ dsenders = <<1>>
    /\ dlast.n = 3
    /\ dlast.rets = <<None, Some(2), None>>
    /\ dchan[1].buf = <<3>>

\* C7: after close_write() no subscriber registered before it is registered
\* any more; its receive side yields at most what its slot held (nothing
\* is added) and then Disconnected, never a wait; and a dispatch made while
\* no subscriber is registered returns Some(item).
C7_CloseWriteDisconnects ==
    [][/\ \A c \in dclosed' :
             /\ ~SenderAlive(c)'
             /\ RecvOutcome(c)' \in {"Ok", "Disconnected"}
             /\ Len(dchan'[c].buf) <= 1
             /\ (c \in dclosed => Len(dchan'[c].buf) <= Len(dchan[c].buf))
       /\ (dclosed' # dclosed) => dsenders' = <<>>
       /\ (dlast'.n > 0 /\ dlast'.nsubs = 0) => dlast'.ret = Some(dlast'.t)]_vars

\* C7 witness: a subscriber closed by close_write has received the item that
\* was in its slot and now observes Disconnected, and a dispatch after the
\* close has been refused.
C7_Witness ==
    \E c \in dclosed :
        /\ dchan[c].rx
        /\ RecvOutcome(c) = "Disconnected"
        /\ dlast.n >= 2 /\ dlast.nsubs = 0
        /\ dlast.ret = Some(dlast.t)
        /\ dlast.rets[1] = None
        /\ ItemSlots(1) = {}

\* --------------------------------------------- Boardcast: claims C8 - C10

\* The items channel c has carried to its receiver, received or still queued.
Delivered(c) == bchan[c].got \o bchan[c].q

\* C8: a subscriber that is still registered and has not dropped its
\* receiver has been delivered exactly the items of the boardcast calls made
\* since its subscription, each once, in the order of the calls, and has
\* received a prefix of them.
C8_AllItemsInOrder ==
    \A c \in DOMAIN bchan :
        (bchan[c].rx /\ c \in Range(bsenders)) =>
            Delivered(c) = SubSeq(bhist.log, bchan[c].since + 1, Len(bhist.log))

\* C8 witness: two subscribers registered before two boardcast calls have
\* both received item 1 then item 2; a third channel does not exist.
C8_Witness ==
    /\ Len(bchan) = 2 /\ bsenders = <<1, 2>>
    /\ bhist.log = <<1, 2>> /\ bpending = {}
    /\ \A c \in {1, 2} :
          bchan[c].rx /\ bchan[c].since = 0 /\ bchan[c].got = <<1, 2>>

\* C9: no item of a boardcast call (new_with's included) that had returned
\* before new_subscriber is ever queued for or received by that subscriber.
C9_NoReplay ==
    \A c \in DOMAIN bchan : Range(Delivered(c)) \cap bchan[c].old = {}

\* C9 witness: a subscriber registered after boardcast 1 had returned and
\* the latest value was Some(1) has received item 2 and nothing else.
C9_Witness ==
    \E c \in DOMAIN bchan :
        /\ bchan[c].old = {1}
        /\ bchan[c].got = <<2>> /\ bchan[c].q = <<>>
        /\ get_latest = Some(2)

\* C10: when no boardcast call is in progress and the last one did not run
\* concurrently with another, get_latest() is None if no boardcast was ever
\* made and otherwise the item of the most recent boardcast call, whatever
\* the subscriber list; and the latest value changes only in a step in
\* which a boardcast call returns (not by new_subscriber, clean, len,
\* get_latest or a receiver).
C10_LatestIsLastBoardcast ==
    /\ get_latest = (IF bhist.log = <<>> THEN None ELSE Some(1))
    /\ [][/\ (bpending' = {} /\ ~bhist'.overlap) =>
                get_latest' = IF bhist'.log = <<>> THEN None
                              ELSE Some(bhist'.log[Len(bhist'.log)])
          /\ (latest' # latest) =>
                (bpending' # bpending /\ bsenders' = bsenders)]_vars

\* C10 witness: two boardcast calls were made one after the other on a
\* Boardcast created by new(), the second with no subscriber registered
\* (after clean()), and get_latest() is Some(2).
C10_Witness ==
    /\ bhist.log = <<1, 2>> /\ bhist.done = {1, 2} /\ ~bhist.overlap
    /\ bpending = {}
    /\ len = 0 /\ Len(bchan) = 1 /\ bchan[1].rx
    /\ Delivered(1) = <<1>>
    /\ get_latest = Some(2)

\* ------------------------------------------------------------------ C20
\* Channel c, in the channel states chans, is connected and has room.
SlotFreeIn(chans, c) == chans[c].rx /\ Len(chans[c].buf) < SlotCapacity

\* The list S without the subscribers before position k that are
\* disconnected in chans; the others keep their relative order.
DropDisconnectedBefore(S, chans, k) ==
    SelectSeq(SubSeq(S, 1, k - 1), LAMBDA c : chans[c].rx)
        \o SubSeq(S, k, Len(S))

\* C20: a dispatch call during which no consumer touched a channel puts the
\* item in the first subscriber, in registration order, that is connected
\* and has an empty slot; the disconnected subscribers before it are removed
\* from the list, the full ones keep their content, the subscribers after
\* it are untouched and the remaining ones keep their order. When there is
\* no such subscriber the item comes back, nothing is buffered and exactly
\* the disconnected subscribers are removed. In every call, a pass of the
\* scan changes at most the one channel that accepts the item.
C20_FirstAvailableInOrder ==
    [][(dlast' # dlast) =>
        LET S == IF dcall.pc = "scan" THEN dcall.s0 ELSE dsenders
            ch == IF dcall.pc = "scan" THEN dcall.ch0 ELSE dchan
            d == dlast'
            free == {k \in DOMAIN S : SlotFreeIn(ch, S[k])}
        IN /\ \A c \in DOMAIN dchan : c # d.slot => dchan'[c] = dchan[c]
           /\ ~d.interf =>
                IF free # {}
                THEN LET k == CHOOSE j \in free : \A i \in free : j <= i
                     IN /\ d.ret = None
                        /\ d.slot = S[k]
                        /\ dchan' = [ch EXCEPT ![S[k]].buf = Append(@, d.t)]
                        /\ dsenders' = DropDisconnectedBefore(S, ch, k)
                ELSE /\ d.ret = Some(d.t)
                     /\ dchan' = ch
                     /\ dsenders' = DropDisconnectedBefore(S, ch, Len(S) + 1)]_vars

\* A call that met a disconnected subscriber first, removed it and put the
\* item in the second one, with no consumer acting during the call.
C20_Witness ==
    /\ dlast.n > 0 /\ ~dlast.interf /\ dlast.ret = None
    /\ dlast.nsubs = 2 /\ Len(dsenders) = 1
    /\ dlast.slot = dsenders[1]
    /\ ~dchan[1].rx /\ dchan[2].buf = <<dlast.t>>

\* ------------------------------------------------------------------ C17
\* C17: sleep_to(target) on a token whose deadline d lies before target,
\* with d and target both less than one step (max_sleep) after the call,
\* returns at about d and not at target.
C17_SleepToStopsAtDeadline ==
    (wt.op = "sleep_to" /\ wt.pc = "done") =>
        LET self == toks[wt.tok]
        IN (/\ self.deadline # None
            /\ wt.start < self.deadline[1]
            /\ self.deadline[1] < wt.target
            /\ wt.target - wt.start < MaxSleep) => wt.at < wt.target

\* ------------------------------------------------------------------ C18
\* C18: recv returns the timed-out/cancelled outcome only when the token is
\* dead; while the token is alive and the channel is connected and empty it
\* keeps waiting.
C18_TimeoutOnlyWhenDead ==
    (wt.op = "recv" /\ wt.pc = "done" /\ wt.ret.res = "Timeout") =>
        ~is_alive(toks[wt.tok])

\* ------------------------------------------------------------------ C19
IsPrefix(a, b) == Len(a) <= Len(b) /\ SubSeq(b, 1, Len(a)) = a

\* C19: iter() and recv_iter() yield the underlying items in their original
\* order; a next() that starts on a dead token returns end-of-sequence and
\* consumes nothing; the next() of recv_iter ends on a disconnected empty
\* channel; and on an empty connected channel it ends within one poll step
\* of the token's death: the pending recv_timeout expires at most `poll`
\* after the death, the clock does not pass it, and its expiry on a dead
\* token ends the sequence.
C19_IterOrderAndStop ==
    /\ [](/\ IsPrefix(wout.out, [k \in 1 .. MaxItems |-> k])
          /\ wout.out \o wout.coll = [k \in 1 .. MaxItems |-> k]
          /\ IsPrefix(wout.got, wch.sent)
          /\ wout.got \o wch.buf = wch.sent
          /\ wt.pc = "polling" => now <= wt.wake)
    /\ [][/\ (wt'.n = wt.n + 1 /\ ~is_alive(toks[wt'.tok])) =>
                /\ wt'.pc = "done" /\ wt'.ret.res = "None"
                /\ wch' = wch /\ wout' = wout
          /\ (wt.pc = "polling" /\ wt' # wt /\ wch.buf = <<>>
                /\ (~wch.tx \/ ~is_alive(toks[wt.tok]))) =>
                /\ wt'.pc = "done" /\ wt'.ret.res = "None"
                /\ wch' = wch /\ wout' = wout
          /\ (wt.pc = "polling" /\ wt' = wt
                /\ is_alive(toks[wt.tok]) /\ ~is_alive(toks[wt.tok])') =>
                wt.wake <= now' + wt.poll]_vars

\* After iter() yielded the first item, a next() of recv_iter is called on
\* a dead token while an item is buffered: it ends and the item stays.
C19_Witness ==
    /\ wt.n = 2 /\ wt.op = "recv_iter" /\ wt.pc = "done"
    /\ wt.ret.res = "None"
    /\ ~is_alive(toks[wt.tok])
    /\ wch.buf = <<1>> /\ wch.tx
    /\ wout.out = <<1>> /\ wout.coll # <<>>

\* ------------------------------------------------------------------ C11
\* C11: with a handler that returned Ok every time and a caller token alive
\* at the return (so during the whole call), parallel returns tasks.len()
\* and every task was handed to the handler, once.
C11_AllTasksProcessed ==
    (/\ pm.pc = "done" /\ ~ph.fail /\ ph.npanic = 0
     /\ is_alive(ParCaller)) =>
        /\ pm.ret = pm.n
        /\ ph.seen = 1 .. pm.n
        /\ ph.inv = pm.n

\* Two tasks, two workers, no failure; a task was still in a slot when the
\* write side was closed.
C11_Witness ==
    /\ pm.pc = "done" /\ ~ph.fail /\ ph.npanic = 0 /\ is_alive(ParCaller)
    /\ pm.n = 2 /\ pm.w = 2 /\ ph.closeBuf
    /\ pm.ret = 2

C13_CallerTokenUntouched ==
    /\ [][(parVars' # parVars \/ dispVars' # dispVars) =>
            /\ toks'[1] = toks[1]
            /\ flags'[toks[1].alive] = flags[toks[1].alive]
            /\ is_alive(toks[1])' = is_alive(toks[1])]_vars
    /\ []((pm.pc = "done" /\ (ph.fail \/ ph.npanic > 0)) =>
            ~is_alive(ParAlive))

\* parallel has returned after a failure: the forked token is dead and the
\* caller's token is alive.
C13_Witness ==
    /\ pm.pc = "done" /\ ph.fail
    /\ ~is_alive(ParAlive) /\ ~flags[ParAlive.alive]
    /\ is_alive(ParCaller)
    /\ pm.ret < pm.n

\* ------------------------------------------------------------------ C14
\* C14 as stated: the value returned by parallel is the number of handler
\* invocations, whatever their outcome (Ok, Err or panic).
C14_ReturnsInvocations ==
    pm.pc = "done" => pm.ret = ph.inv

\* Workers inside a handler invocation.
InFlight == {x \in DOMAIN pw : pw[x].pc = "handle"}

\* C14 as it holds: the counter counts the handler invocations that
\* returned, Ok or Err; an invocation that panicked is not counted. The
\* value returned is the number of invocations minus the panicked ones.
C14_ReturnsReturnedInvocations ==
    /\ pcnt = ph.inv - ph.npanic - Cardinality(InFlight)
    /\ pm.pc = "done" => pm.ret = ph.inv - ph.npanic

\* Two invocations, one returned and one panicked: parallel returns 1.
C14_Witness ==
    /\ pm.pc = "done"
    /\ ph.inv = 2 /\ ph.npanic = 1
    /\ pm.ret = 1

\* ------------------------------------------------------------------ C15
\* The token forked by parallel has been shut down.
BatchShutDown == pm.pc # "idle" /\ ~flags[ParAlive.alive]

C16_PanicContained ==
    /\ [][ph'.npanic > ph.npanic =>
            /\ ~flags'[ParAlive.alive]
            /\ pm' = pm
            /\ \A y \in DOMAIN pw :
                  pw'[y] = pw[y]
                  \/ (pw[y].pc = "handle" /\ pw'[y].pc = "panicked")]_vars
    /\ []((pm.pc = "done" /\ ph.npanic > 0) =>
            pm.ret = pcnt /\ ~is_alive(ParAlive))
    /\ ((ph.npanic > 0) ~> (pm.pc = "done"))

\* One of two workers panicked in its first invocation; the other worker
\* handled a task and exited; parallel returned 1.
C16_Witness ==
    /\ pm.pc = "done" /\ ph.npanic = 1 /\ ~ph.fail
    /\ pm.w = 2
    /\ \E x \in DOMAIN pw : pw[x].pc = "exit"
    /\ pm.ret = 1

\* ------------------------------------------------------------------ C21
\* The entries of the subscriber list whose receiver has not been dropped,
\* in their order.
KeepLive(S, chans) == SelectSeq(S, LAMBDA c : chans[c].rx)

\* C21: the subscriber list changes only by new_subscriber (one entry
\* appended), by the fan-out of a boardcast call (exactly the entries whose
\* receiver was dropped are removed, the others keep their order, so len()
\* then counts no dropped subscriber) and by clean() (the list becomes
\* empty and nothing else changes); a receiver whose entry has left the
\* list is never registered again, is delivered nothing more and observes
\* disconnection once it has drained its queue.
C21_SubscriberListChanges ==
    /\ [][/\ Len(bchan') > Len(bchan) =>
                /\ Len(bchan') = Len(bchan) + 1
                /\ bsenders' = Append(bsenders, Len(bchan'))
          /\ Len(bhist'.log) > Len(bhist.log) =>
                /\ bsenders' = KeepLive(bsenders, bchan)
                /\ Len(bsenders') =
                      Cardinality({k \in DOMAIN bsenders : bchan[bsenders[k]].rx})
                /\ \A k \in DOMAIN bsenders' : bchan'[bsenders'[k]].rx
          /\ bsenders' # bsenders =>
                \/ Len(bchan') > Len(bchan)
                \/ Len(bhist'.log) > Len(bhist.log)
                \/ /\ bsenders' = <<>>
                   /\ <<bchan', latest', bpending', bhist'>> =
                         <<bchan, latest, bpending, bhist>>
          /\ \A c \in DOMAIN bchan :
                c \notin Range(bsenders) =>
                    /\ c \notin Range(bsenders')
                    /\ Len(bchan'[c].got) + Len(bchan'[c].q) <=
                          Len(bchan[c].got) + Len(bchan[c].q)]_vars
    /\ [](\A c \in DOMAIN bchan :
            (c \notin Range(bsenders) /\ bchan[c].rx /\ bchan[c].q = <<>>) =>
                BRecvOutcome(c) = "Disconnected")

\* Subscriber 1 dropped its receiver and was removed by boardcast 1, which
\* subscriber 2 received; after clean() boardcast 2 was made: len() is 0,
\* subscriber 2 got nothing more and observes disconnection.
C21_Witness ==
    /\ Len(bchan) = 2 /\ ~bchan[1].rx /\ bchan[2].rx
    /\ bhist.log = <<1, 2>> /\ bpending = {}
    /\ len = 0
    /\ bchan[2].got = <<1>> /\ bchan[2].since = 0
    /\ BRecvOutcome(2) = "Disconnected"
    /\ get_latest = Some(2)

\* ------------------------------------------------------------------ C22
\* C22: when no boardcast call is in progress, get_latest() is the item
\* that every registered subscriber with a live receiver was delivered
\* last, also when the calls ran concurrently.
C22_LatestAgreesWithDelivery ==
    bpending = {} =>
        \A c \in Range(bsenders) :
            (bchan[c].rx /\ Delivered(c) # <<>>) =>
                get_latest = Some(Delivered(c)[Len(Delivered(c))])

\* ------------------------------------------------------------------ C23
\* C23: a call of parallel with at least one worker returns, whatever the
\* handler invocations do (return Ok, return Err, panic) and whether or not
\* the caller's token dies during the call.
C23_ParallelTerminates ==
    (pm.pc # "idle" /\ pm.w >= 1) ~> (pm.pc = "done")

\* The deadline of the caller's token passed during a call with a worker:
\* no handler failed or panicked, the batch's own flag was never cleared,
\* submission was abandoned and parallel returned with a task unhandled.
C23_Witness ==
    /\ pm.pc = "done" /\ pm.w >= 1
    /\ ParCaller.deadline # None /\ now >= ParCaller.deadline[1]
    /\ flags[ParAlive.alive] /\ flags[ParCaller.alive]
    /\ ~ph.fail /\ ph.npanic = 0
    /\ pm.ret < pm.n
    /\ \A x \in DOMAIN pw : WorkerEnded(x)

\* ------------------------------------------------------------------ C24
\* The tasks the dispatcher holds in subscriber slots.
InSlots == UNION {Range(dchan[c].buf) : c \in DOMAIN dchan}

\* The task the calling thread still holds: one being offered by a
\* dispatch call that has not placed it, or one given back and awaiting
\* its retry.
InHand ==
    IF \/ pm.pc = "sleep"
       \/ pm.pc = "dispatch" /\ dcall.pc = "scan"
       \/ pm.pc = "dispatch" /\ dcall.pc = "idle" /\ dlast.ret # None
    THEN {pm.cur} ELSE {}

\* C24: every handler invocation is on a task of the list and no two
\* invocations are on the same task (so no two workers handle one task); a
\* task waiting in a slot or held for a retry has not been handled and is in
\* one place only; the counter never exceeds the number of tasks.
C24_EachTaskAtMostOnce ==
    /\ ph.seen \subseteq 1 .. pm.n
    /\ ph.inv = Cardinality(ph.seen)
    /\ \A x, y \in InFlight : x # y => pw[x].item # pw[y].item
    /\ \A x \in InFlight : pw[x].item \in ph.seen
    /\ InSlots \subseteq (1 .. pm.n) \ ph.seen
    /\ \A c, d \in DOMAIN dchan :
          c # d => Range(dchan[c].buf) \cap Range(dchan[d].buf) = {}
    /\ InHand \cap (ph.seen \cup InSlots) = {}
    /\ pcnt <= ph.inv /\ pcnt <= pm.n

\* Task 2 was refused because task 1 still fills the slot of the only
\* worker; the calling thread holds it for a retry and nothing was handled.
C24_Witness ==
    /\ pm.pc = "sleep" /\ pm.cur = 2 /\ pm.n = 2 /\ pm.w = 1
    /\ InFlight = {} /\ InSlots = {1}
    /\ ph.seen = {}

\* ------------------------------------------------------------------ C25
\* The tasks accepted by the dispatcher so far, in the order of acceptance:
\* those the calling thread has seen accepted and the one just placed.
AcceptedSeq ==
    IF pm.pc = "dispatch" /\ dcall.pc = "idle" /\ dlast.ret = None
    THEN Append(ph.acc, pm.cur) ELSE ph.acc

\* The tasks whose handler invocation has ended (returned or panicked).
Finished == ph.seen \ {pw[x].item : x \in InFlight}

\* Accepted tasks whose handler invocation has not ended.
Unfinished == Range(AcceptedSeq) \ Finished

\* Unfinished tasks that are neither in a slot nor being handled: they were
\* in the slot of a worker that dropped its receiver.
Discarded == Unfinished \ (InSlots \cup {pw[x].item : x \in InFlight})

ZeroWorkers(nonEmpty) ==
    pm.pc # "idle" /\ pm.w = 0 /\ (pm.n > 0) = nonEmpty

\* C26: with worker == 0 the dispatcher has no subscriber. With a non-empty
\* task list every dispatch call gives the task back, the calling thread
\* then sleeps and, while the caller's token is alive, offers the same task
\* again, and parallel does not return as long as the caller's token is
\* alive. With an empty task list parallel returns 0.
C26_ZeroWorkers ==
    /\ [](pm.pc # "idle" /\ pm.w = 0 => dsenders = <<>> /\ pw = <<>>)
    /\ []((ZeroWorkers(TRUE) /\ pm.pc = "done") => ~is_alive(ParCaller))
    /\ []((ZeroWorkers(TRUE) /\ is_alive(ParCaller)) =>
            pm.pc \in {"iter", "dispatch", "sleep"} /\ pm.k <= 2)
    /\ [][(ZeroWorkers(TRUE) /\ pm.pc = "dispatch" /\ pm'.pc # "dispatch") =>
            pm'.pc = "sleep" /\ pm'.cur = pm.cur]_vars
    /\ [][(ZeroWorkers(TRUE) /\ pm.pc = "sleep" /\ pm'.pc # "sleep"
            /\ is_alive(ParCaller)) =>
            pm'.pc = "dispatch" /\ pm'.cur = pm.cur]_vars
    /\ ((ZeroWorkers(TRUE) /\ pm.pc = "sleep") ~>
            (pm.pc = "dispatch" \/ ~is_alive(ParCaller)))
    /\ ((ZeroWorkers(TRUE) /\ pm.pc = "dispatch") ~> (pm.pc = "sleep"))
    /\ (ZeroWorkers(FALSE) ~> (pm.pc = "done" /\ pm.ret = 0))

\* No worker, two tasks, a caller's token without deadline that is alive:
\* task 1 was given back by dispatch and the calling thread sleeps before
\* offering it again; task 2 was never taken.
C26_Witness ==
    /\ ZeroWorkers(TRUE) /\ pm.n = 2
    /\ pm.pc = "sleep" /\ pm.cur = 1 /\ pm.k = 2
    /\ ParCaller.deadline = None /\ is_alive(ParCaller)
    /\ ph.acc = <<>>

\* ------------------------------------------------- LruMap: claims C27 - C29
\* The keys of the order map by ascending sequence number: from the entry
\* that is evicted first to the one evicted last.
OrderSeq(m) ==
    LET ks == KeySeq(DOMAIN m.order)
    IN [i \in 1 .. Len(ks) |-> m.order[ks[i]]]

\* The value of key x once insert(k, v) has stored its entry.
ValueWith(m, k, v, x) == IF x = k THEN v ELSE m.value[x][1]

\* C27: the order in which entries are evicted is the order of their most
\* recent insert or get (peek, modify and contains_key do not count); an
\* insert of a new key removes the entries least recently inserted or got
\* until len() == limit, keeps the others with their values, and returns
\* the value of the entry removed last, or None when nothing was removed.
C27_EvictsLeastRecentlyUsed ==
    /\ OrderSeq(lru.m) = lru.rec
    /\ \A k \in Keys \ DOMAIN lru.m.value, v \in Vals :
          LET r == LruMap_insert(lru.m, k, v)
              full == Append(lru.rec, k)
              e == IF Len(full) > lru.m.limit
                   THEN Len(full) - lru.m.limit ELSE 0
          IN /\ DOMAIN r.self.value = {full[i] : i \in e + 1 .. Len(full)}
             /\ LruMap_len(r.self) = MinOf(Len(full), lru.m.limit)
             /\ \A x \in DOMAIN r.self.value :
                   LruMap_peek(r.self, x) = Some(ValueWith(lru.m, k, v, x))
             /\ r.ret = IF e = 0 THEN None
                        ELSE Some(ValueWith(lru.m, k, v, full[e]))
             /\ OrderSeq(r.self) = SubSeq(full, e + 1, Len(full))

\* limit 2: after insert(1, 1), insert(2, 2), get(1) the map is full and
\* key 2, inserted after key 1, is the least recently used: insert(3, 1)
\* on this map evicts key 2, keeps key 1 and returns the value of key 2.
C27_Witness ==
    /\ lru.m.limit = 2
    /\ lru.last = LastCall("insert", 2, 2, None)
    /\ lru.m.value = [x \in {1, 2} |-> IF x = 1 THEN <<1, 3>> ELSE <<2, 2>>]
    /\ lru.rec = <<2, 1>>
    /\ LruMap_insert(lru.m, 3, 1).ret = Some(2)
    /\ DOMAIN LruMap_insert(lru.m, 3, 1).self.value = {1, 3}

\* ------------------------------------------------------------------ C28
\* C28: the two maps correspond one to one (value[k] = <<v, s>> exactly
\* when order[s] = k), so they have the same size; the sequence numbers of
\* the entries are pairwise distinct and not greater than seq; len() is at
\* most limit.
C28_MapsCorrespond ==
    LET m == lru.m
    IN /\ \A k \in DOMAIN m.value :
             m.value[k][2] \in DOMAIN m.order /\ m.order[m.value[k][2]] = k
       /\ \A s \in DOMAIN m.order :
             m.order[s] \in DOMAIN m.value /\ m.value[m.order[s]][2] = s
       /\ Cardinality(DOMAIN m.order) = Cardinality(DOMAIN m.value)
       /\ \A j, k \in DOMAIN m.value :
             j # k => m.value[j][2] # m.value[k][2]
       /\ \A s \in DOMAIN m.order : s <= m.seq
       /\ LruMap_len(m) <= m.limit
       /\ LruMap_len(m) = Len(lru.rec)

\* limit 2: an append of three entries returned the value it evicted (that
\* of key 1); the map is full and its entries carry the two latest sequence
\* numbers.
C28_Witness ==
    /\ lru.m.limit = 2
    /\ lru.last.op = "append" /\ Len(lru.last.ret) = 1
    /\ DOMAIN lru.m.value = {2, 3}
    /\ lru.m.seq = MaxSeq
    /\ DOMAIN lru.m.order = {MaxSeq - 1, MaxSeq}
    /\ lru.rec = <<2, 3>>

\* ------------------------------------------------------------------ C29
\* C29: insert(k, v) on a present key leaves every stored value, the set of
\* keys and len() as they are, returns None and makes k the most recent
\* entry; insert on an absent key stores v when the entry stays in the map;
\* an append of keys that are all present stores nothing and returns
\* nothing.
C29_InsertKeepsStoredValue ==
    /\ \A k \in DOMAIN lru.m.value, v \in Vals :
          LET r == LruMap_insert(lru.m, k, v)
          IN /\ r.ret = None
             /\ DOMAIN r.self.value = DOMAIN lru.m.value
             /\ LruMap_len(r.self) = LruMap_len(lru.m)
             /\ \A x \in DOMAIN lru.m.value :
                   LruMap_peek(r.self, x) = LruMap_peek(lru.m, x)
             /\ LruMap_get(r.self, k).ret = LruMap_peek(lru.m, k)
             /\ OrderSeq(r.self) = Touch(OrderSeq(lru.m), <<k>>)
    /\ \A k \in Keys \ DOMAIN lru.m.value, v \in Vals :
          LET r == LruMap_insert(lru.m, k, v)
          IN LruMap_contains_key(r.self, k) => LruMap_peek(r.self, k) = Some(v)
    /\ \A other \in OtherMaps :
          DOMAIN other \subseteq DOMAIN lru.m.value =>
              LET r == LruMap_append(lru.m, other)
              IN /\ r.ret = <<>>
                 /\ DOMAIN r.self.value = DOMAIN lru.m.value
                 /\ \A x \in DOMAIN lru.m.value :
                       LruMap_peek(r.self, x) = LruMap_peek(lru.m, x)

\* Key 1 was inserted with value 1, key 2 after it; the call insert(1, 2)
\* returned None: the map still holds value 1 for key 1, which is now the
\* most recent entry.
C29_Witness ==
    /\ lru.last = LastCall("insert", 1, 2, None)
    /\ LruMap_peek(lru.m, 1) = Some(1)
    /\ lru.rec = <<2, 1>>
    /\ LruMap_len(lru.m) = 2
    /\ lru.m.seq = 3

====
